---- MODULE Spec2Model ----
(***************************************************************************)
(* State-machine model of daily_when_tracker.py: the When Tracker terminal *)
(* application (a DataTable backed by a CSV file, an entry form and a      *)
(* chart view).  Text values are sequences of one-character strings so     *)
(* that parsing, formatting and comparison are computed, not assumed.      *)
(***************************************************************************)
EXTENDS Integers, Sequences, FiniteSets, TLC

VARIABLES
    running,         \* TRUE while app.run() is executing
    dataDisplay,     \* DataView.styles.display
    inputDisplay,    \* InputView.styles.display
    plotDisplay,     \* Plotview.styles.display
    current,         \* ContentSwitcher.current of the Plotview
    dark,            \* App.dark
    task,            \* Input#task.value
    alertness,       \* Input#alertness.value
    energy,          \* Input#energy.value
    data,            \* DataTable._data: the rows in insertion order
    row_locations,   \* DataTable._row_locations: display position -> index in data
    file,            \* daily_when_tracker.csv
    phase,           \* "app" in the application; "input"/"done" in the function studies
    dt,              \* argument of round_time (round_time study)
    rounded          \* result of round_time (round_time study)

vars == <<running, dataDisplay, inputDisplay, plotDisplay, current, dark,
          task, alertness, energy, data, row_locations, file, phase, dt, rounded>>

studyVars == <<phase, dt, rounded>>

appVars == <<running, dataDisplay, inputDisplay, plotDisplay, current, dark,
             task, alertness, energy, data, row_locations, file>>

(***************************************************************************)
(* Text                                                                    *)
(***************************************************************************)

\* The characters used, in code-point order (Python compares str by code point).
Alphabet ==
    << " ", "+", ",", "-", ".", "0", "1", "2", "3", "4", "5", "6", "7", "8", "9", ":",
       "A", "F", "M", "N", "R", "S", "T", "W",
       "a", "d", "e", "h", "i", "n", "o", "r", "s", "t", "u", "y" >>

Ord(c) == CHOOSE i \in 1..Len(Alphabet) : Alphabet[i] = c

DigitChars == <<"0", "1", "2", "3", "4", "5", "6", "7", "8", "9">>

IsDigit(c) == \E i \in 1..10 : DigitChars[i] = c

DigitVal(c) == (CHOOSE i \in 1..10 : DigitChars[i] = c) - 1

\* Python str < str
RECURSIVE StrLess(_, _)
StrLess(a, b) ==
    IF b = <<>> THEN FALSE
    ELSE IF a = <<>> THEN TRUE
    ELSE IF Head(a) = Head(b) THEN StrLess(Tail(a), Tail(b))
    ELSE Ord(Head(a)) < Ord(Head(b))

\* Python int(s) accepts an optional sign followed by decimal digits.
IsIntString(s) ==
    LET body == IF s # <<>> /\ Head(s) \in {"+", "-"} THEN Tail(s) ELSE s
    IN  body # <<>> /\ \A i \in 1..Len(body) : IsDigit(body[i])

RECURSIVE DigitsValue(_)
DigitsValue(s) ==
    IF s = <<>> THEN 0
    ELSE 10 * DigitsValue(SubSeq(s, 1, Len(s) - 1)) + DigitVal(s[Len(s)])

ParseInt(s) ==
    IF Head(s) = "-" THEN 0 - DigitsValue(Tail(s))
    ELSE IF Head(s) = "+" THEN DigitsValue(Tail(s))
    ELSE DigitsValue(s)

\* Python str(n) for n >= 0
RECURSIVE IntToStr(_)
IntToStr(n) ==
    IF n < 10 THEN <<DigitChars[n + 1]>>
    ELSE IntToStr(n \div 10) \o <<DigitChars[(n % 10) + 1]>>

\* zero-padded decimal of a fixed width (strftime %Y %m %d %H %M)
RECURSIVE Pad(_, _)
Pad(s, width) == IF Len(s) >= width THEN s ELSE Pad(<<"0">> \o s, width)

(***************************************************************************)
(* datetime                                                                *)
(***************************************************************************)

\* A datetime is [ordinal, second, microsecond]: the proleptic Gregorian
\* ordinal of its date (date.toordinal()), the second of the day and the
\* microsecond of the second.
DateTime(o, s, us) == [ordinal |-> o, second |-> s, microsecond |-> us]

\* date.fromordinal: the civil date (year, month, day) of an ordinal
FromOrdinal(o) ==
    LET z   == o + 305
        era == z \div 146097
        doe == z - era * 146097
        yoe == (doe - (doe \div 1460) + (doe \div 36524) - (doe \div 146096)) \div 365
        doy == doe - (365 * yoe + (yoe \div 4) - (yoe \div 100))
        mp  == (5 * doy + 2) \div 153
        d   == doy - ((153 * mp + 2) \div 5) + 1
        m   == IF mp < 10 THEN mp + 3 ELSE mp - 9
        y   == yoe + era * 400 + (IF m <= 2 THEN 1 ELSE 0)
    IN  [year |-> y, month |-> m, day |-> d]

\* datetime + timedelta(0, seconds, microseconds), normalised
AddTimedelta(d, seconds, microseconds) ==
    LET us    == d.microsecond + microseconds
        s     == d.second + seconds + (us \div 1000000)
    IN  DateTime(d.ordinal + (s \div 86400), s % 86400, us % 1000000)

DayNames ==
    << <<"M","o","n","d","a","y">>, <<"T","u","e","s","d","a","y">>,
       <<"W","e","d","n","e","s","d","a","y">>, <<"T","h","u","r","s","d","a","y">>,
       <<"F","r","i","d","a","y">>, <<"S","a","t","u","r","d","a","y">>,
       <<"S","u","n","d","a","y">> >>

\* dt.strftime("%Y-%m-%d")
StrfDate(d) ==
    LET c == FromOrdinal(d.ordinal)
    IN  Pad(IntToStr(c.year), 4) \o <<"-">> \o Pad(IntToStr(c.month), 2)
        \o <<"-">> \o Pad(IntToStr(c.day), 2)

\* dt.strftime("%A"): date.weekday() is (ordinal + 6) % 7, Monday = 0
StrfDay(d) == DayNames[((d.ordinal + 6) % 7) + 1]

\* dt.strftime("%H:%M")
StrfTime(d) ==
    Pad(IntToStr(d.second \div 3600), 2) \o <<":">>
    \o Pad(IntToStr((d.second % 3600) \div 60), 2)

\* round_time with the rounding step rounded down instead of to the nearest
round_time_floor(d, round_to) ==
    LET seconds  == d.second
        rounding == (seconds \div round_to) * round_to
    IN  AddTimedelta(d, rounding - seconds, 0 - d.microsecond)

\* WhenTrackerApp.round_time(dt, round_to); round_to is even in every call
round_time(d, round_to) ==
    LET seconds  == d.second
        rounding == ((seconds + (round_to \div 2)) \div round_to) * round_to
    IN  AddTimedelta(d, rounding - seconds, 0 - d.microsecond)

(***************************************************************************)
(* Cells, rows and the DataTable                                           *)
(***************************************************************************)

\* A cell holds a Python value: a str, an int, a float with an integral
\* value, or the float NaN.
StrCell(s) == [type |-> "str", s |-> s, n |-> 0]

IntCell(n) == [type |-> "int", s |-> <<>>, n |-> n]

FloatCell(n) == [type |-> "float", s |-> <<>>, n |-> n]

NaNCell == [type |-> "nan", s |-> <<>>, n |-> 0]

SignedToStr(n) == IF n < 0 THEN <<"-">> \o IntToStr(0 - n) ELSE IntToStr(n)

\* Python str(value): what the DataTable displays for a cell
PyStr(c) ==
    CASE c.type = "str"   -> c.s
      [] c.type = "int"   -> SignedToStr(c.n)
      [] c.type = "float" -> SignedToStr(c.n) \o <<".", "0">>
      [] c.type = "nan"   -> <<"n", "a", "n">>

COLS == <<"date", "day", "time", "task", "alertness", "energy">>

\* (date, time) of one row compared with < as Python compares the tuples that
\* itemgetter("date", "time") returns; both cells are str in every table the
\* application builds.
KeyLess(r1, r2) ==
    \/ StrLess(r1[1].s, r2[1].s)
    \/ r1[1].s = r2[1].s /\ StrLess(r1[3].s, r2[3].s)

\* Position at which index k is inserted into the ordered prefix `acc`:
\* behind every index whose row does not sort after it.
RECURSIVE InsertDesc(_, _, _)
InsertDesc(rows, acc, k) ==
    IF acc = <<>> THEN <<k>>
    ELSE IF KeyLess(rows[Head(acc)], rows[k]) THEN <<k>> \o acc
    ELSE <<Head(acc)>> \o InsertDesc(rows, Tail(acc), k)

\* The same, placing k in front of the rows it ties with.
RECURSIVE InsertDescTiesFirst(_, _, _)
InsertDescTiesFirst(rows, acc, k) ==
    IF acc = <<>> THEN <<k>>
    ELSE IF ~KeyLess(rows[k], rows[Head(acc)]) THEN <<k>> \o acc
    ELSE <<Head(acc)>> \o InsertDescTiesFirst(rows, Tail(acc), k)

RECURSIVE SortedDescTiesReversed(_, _)
SortedDescTiesReversed(rows, n) ==
    IF n = 0 THEN <<>>
    ELSE InsertDescTiesFirst(rows, SortedDescTiesReversed(rows, n - 1), n)

\* sorted(self._data.items(), key=..., reverse=True): a stable sort, so rows
\* with equal keys keep the order of _data.  The result is the new
\* _row_locations.
RECURSIVE SortedDesc(_, _)
SortedDesc(rows, n) ==
    IF n = 0 THEN <<>>
    ELSE InsertDesc(rows, SortedDesc(rows, n - 1), n)

\* A sort that reverses an ascending stable sort: ties come out reversed
sort_ties_reversed(rows) == SortedDescTiesReversed(rows, Len(rows))

\* DataView.sort: DataTable.sort("date", "time", reverse=True)
sort(rows) == SortedDesc(rows, Len(rows))

\* DataTable.get_row_at(i)
get_row_at(rows, locs, i) == rows[locs[i]]

\* The rows in display order
DisplayedRows(rows, locs) == [i \in 1..Len(locs) |-> rows[locs[i]]]

RemoveAt(seq, k) == SubSeq(seq, 1, k - 1) \o SubSeq(seq, k + 1, Len(seq))

\* _row_locations after DataTable.remove_row of the row displayed at p
LocationsWithout(locs, p) ==
    LET k    == locs[p]
        rest == RemoveAt(locs, p)
    IN  [i \in 1..Len(rest) |-> IF rest[i] > k THEN rest[i] - 1 ELSE rest[i]]

(***************************************************************************)
(* DataFrame and CSV                                                       *)
(***************************************************************************)

\* astype(int) of one value: raises for NaN and for a str that int() rejects
CanAstypeInt(c) ==
    CASE c.type = "str" -> IsIntString(c.s)
      [] c.type = "nan" -> FALSE
      [] OTHER          -> TRUE

AstypeInt(c) == IF c.type = "str" THEN IntCell(ParseInt(c.s)) ELSE IntCell(c.n)

\* DataView.get_df succeeds
CanGetDf(rows) == \A i \in 1..Len(rows) : CanAstypeInt(rows[i][5]) /\ CanAstypeInt(rows[i][6])

\* DataView.get_df: the displayed rows with alertness and energy as int
get_df(rows, locs) ==
    [i \in 1..Len(locs) |->
        [c \in 1..6 |-> IF c >= 5 THEN AstypeInt(get_row_at(rows, locs, i)[c])
                        ELSE get_row_at(rows, locs, i)[c]]]

\* The text DataFrame.to_csv writes for one value (na_rep is "")
CsvField(c) == IF c.type = "nan" THEN <<>> ELSE PyStr(c)

NoFile == [exists |-> FALSE, header |-> <<>>, lines |-> <<>>]

\* file.writelines([", ".join(self.COLS)]): the names after the first carry
\* the blank of the separator
HeaderOnlyFile ==
    [exists |-> TRUE,
     header |-> [i \in 1..6 |-> IF i = 1 THEN COLS[i] ELSE " " \o COLS[i]],
     lines  |-> <<>>]

\* df.to_csv(path, index=False): the header and one line per row, replacing
\* the file
to_csv(df) ==
    [exists |-> TRUE,
     header |-> COLS,
     lines  |-> [i \in 1..Len(df) |-> [c \in 1..6 |-> CsvField(df[i][c])]]]

\* Some of the strings pandas.read_csv reads as missing values
NaValues == { <<>>, <<"N", "A">>, <<"N", "a", "N">>, <<"n", "a", "n">> }

\* pd.read_csv(path).to_dict(orient="split")["data"]: the first line is the
\* header whatever it holds; each column gets the narrowest type that fits
\* all of its fields: int64, float64 when integers are mixed with missing
\* values, else object (str, with NaN for the missing values).
read_csv(f) ==
    LET n         == Len(f.lines)
        isNa(x)   == x \in NaValues
        allInt(c) == \A i \in 1..n : isNa(f.lines[i][c]) \/ IsIntString(f.lines[i][c])
        anyNa(c)  == \E i \in 1..n : isNa(f.lines[i][c])
        cell(i, c) ==
            LET x == f.lines[i][c]
            IN  IF isNa(x) THEN NaNCell
                ELSE IF allInt(c) /\ ~anyNa(c) THEN IntCell(ParseInt(x))
                ELSE IF allInt(c) THEN FloatCell(ParseInt(x))
                ELSE StrCell(x)
    IN  [i \in 1..n |-> [c \in 1..6 |-> cell(i, c)]]

(***************************************************************************)
(* Validators                                                              *)
(***************************************************************************)

MinTaskLen == 1

MaxTaskLen == 255

MinScore == 1

MaxScore == 10

\* Length(minimum=1, maximum=255)
LengthValid(value) == MinTaskLen <= Len(value) /\ Len(value) <= MaxTaskLen

\* Integer(minimum=1, maximum=10)
IntegerValid(value) ==
    /\ IsIntString(value)
    /\ MinScore <= ParseInt(value)
    /\ ParseInt(value) <= MaxScore

(***************************************************************************)
(* Inputs of the model                                                     *)
(***************************************************************************)

\* Rows the table may hold before submit is no longer taken
MaxRows == 1

Read == <<"R", "e", "a", "d">>

LongTask == [i \in 1..(MaxTaskLen + 1) |-> "a"]

\* Texts typed into the three fields: empty, valid, and invalid ones
TaskTexts == { <<>>, Read, <<"N", "A">>, LongTask }

AlertnessTexts == { <<>>, <<"5">>, <<"1", "1">> }

EnergyTexts == { <<>>, <<"6">> }

\* Values of datetime.datetime.now(): 2023-12-31 10:07:12.000345 and
\* 2023-12-31 23:50:00
Nows ==
    { DateTime(738885, 10 * 3600 + 7 * 60 + 12, 345),
      DateTime(738885, 23 * 3600 + 50 * 60, 0) }

Slots == {"time-over-total", "time-over-alertness", "time-over-energy"}

NoDateTime == DateTime(0, 0, 0)

(***************************************************************************)
(* The application                                                         *)
(***************************************************************************)

\* Display of the three views set by daily_when_tracker.css
StylesheetDisplay == [data |-> "block", input |-> "none", plot |-> "none"]

\* No process: nothing is held in memory
NotRunning ==
    /\ running' = FALSE
    /\ dataDisplay' = "none" /\ inputDisplay' = "none" /\ plotDisplay' = "none"
    /\ current' = "time-over-total"
    /\ dark' = TRUE
    /\ task' = <<>> /\ alertness' = <<>> /\ energy' = <<>>
    /\ data' = <<>> /\ row_locations' = <<>>

\* An exception leaves a handler: the application terminates
Crash == NotRunning /\ UNCHANGED file

Init ==
    /\ running = FALSE
    /\ dataDisplay = "none" /\ inputDisplay = "none" /\ plotDisplay = "none"
    /\ current = "time-over-total"
    /\ dark = TRUE
    /\ task = <<>> /\ alertness = <<>> /\ energy = <<>>
    /\ data = <<>> /\ row_locations = <<>>
    /\ file = NoFile
    /\ phase = "app" /\ dt = NoDateTime /\ rounded = NoDateTime

\* WhenTrackerApp.show_data
show_data ==
    /\ inputDisplay' = "none"
    /\ plotDisplay' = "none"
    /\ dataDisplay' = "block"

\* app.run(): compose, then DataView.on_mount loads the file or creates it
on_mount ==
    /\ ~running
    /\ running' = TRUE
    /\ dataDisplay' = StylesheetDisplay.data
    /\ inputDisplay' = StylesheetDisplay.input
    /\ plotDisplay' = StylesheetDisplay.plot
    /\ current' = "time-over-total"
    /\ dark' = TRUE
    /\ task' = <<>> /\ alertness' = <<>> /\ energy' = <<>>
    /\ IF file.exists
       THEN /\ data' = read_csv(file)
            /\ UNCHANGED file
       ELSE /\ data' = <<>>
            /\ file' = HeaderOnlyFile
    /\ row_locations' = sort(data')
    /\ UNCHANGED studyVars

\* WhenTrackerApp.action_toggle_dark_mode
action_toggle_dark_mode ==
    /\ running
    /\ dark' = ~dark
    /\ UNCHANGED <<running, dataDisplay, inputDisplay, plotDisplay, current,
                   task, alertness, energy, data, row_locations, file, phase, dt, rounded>>

\* action_add_row that leaves the charts displayed
action_add_row_keeps_plot ==
    /\ running
    /\ dataDisplay' = "none"
    /\ inputDisplay' = "block"
    /\ UNCHANGED <<running, plotDisplay, current, dark, task, alertness, energy,
                   data, row_locations, file, phase, dt, rounded>>

\* WhenTrackerApp.action_add_row
action_add_row ==
    /\ running
    /\ dataDisplay' = "none"
    /\ plotDisplay' = "none"
    /\ inputDisplay' = "block"
    /\ UNCHANGED <<running, current, dark, task, alertness, energy, data,
                   row_locations, file, phase, dt, rounded>>

\* A key typed into one of the three Input widgets of the form.  The
\* ErrorDisplay that show_invalid_reasons updates is not part of the state.
input_changed ==
    /\ running
    /\ inputDisplay = "block"
    /\ \/ \E v \in TaskTexts : task' = v /\ UNCHANGED <<alertness, energy>>
       \/ \E v \in AlertnessTexts : alertness' = v /\ UNCHANGED <<task, energy>>
       \/ \E v \in EnergyTexts : energy' = v /\ UNCHANGED <<task, alertness>>
    /\ UNCHANGED <<running, dataDisplay, inputDisplay, plotDisplay, current, dark,
                   data, row_locations, file, phase, dt, rounded>>

\* WhenTrackerApp.action_show_plots; plot_total reads get_df().  The bars drawn
\* on the three plots are not part of the state.
action_show_plots ==
    /\ running
    /\ IF CanGetDf(data)
       THEN /\ inputDisplay' = "none"
            /\ dataDisplay' = "none"
            /\ plotDisplay' = "block"
            /\ UNCHANGED <<running, current, dark, task, alertness, energy, data,
                           row_locations, file>>
       ELSE Crash
    /\ UNCHANGED studyVars

\* Plotview.on_button_pressed for one of the three tab buttons, followed by
\* the application's handler of the same button (plot_total, plot_alertness
\* or plot_energy, which read get_df())
tab_pressed ==
    /\ running
    /\ plotDisplay = "block"
    /\ \E id \in Slots :
        IF CanGetDf(data)
        THEN /\ current' = id
             /\ UNCHANGED <<running, dataDisplay, inputDisplay, plotDisplay, dark,
                            task, alertness, energy, data, row_locations, file>>
        ELSE Crash
    /\ UNCHANGED studyVars

\* WhenTrackerApp.action_remove_row; the cursor is on any row of the table,
\* and coordinate_to_cell_key raises when the table has no rows
action_remove_row ==
    /\ running
    /\ IF dataDisplay = "block"
       THEN IF row_locations = <<>>
            THEN Crash
            ELSE /\ \E p \in 1..Len(row_locations) :
                      /\ data' = RemoveAt(data, row_locations[p])
                      /\ row_locations' = LocationsWithout(row_locations, p)
                 /\ UNCHANGED <<running, dataDisplay, inputDisplay, plotDisplay,
                                current, dark, task, alertness, energy, file>>
       ELSE UNCHANGED appVars
    /\ UNCHANGED studyVars

\* WhenTrackerApp.action_save
action_save ==
    /\ running
    /\ IF CanGetDf(data)
       THEN /\ file' = to_csv(get_df(data, row_locations))
            /\ UNCHANGED <<running, dataDisplay, inputDisplay, plotDisplay, current,
                           dark, task, alertness, energy, data, row_locations>>
       ELSE Crash
    /\ UNCHANGED studyVars

\* action_exit_application that saves the table before it exits
action_exit_saves ==
    /\ running
    /\ NotRunning
    /\ file' = IF CanGetDf(data) THEN to_csv(get_df(data, row_locations)) ELSE file
    /\ UNCHANGED studyVars

\* WhenTrackerApp.action_exit_application
action_exit_application ==
    /\ running
    /\ NotRunning
    /\ UNCHANGED <<file, phase, dt, rounded>>

\* WhenTrackerApp.back_to_view: the Back button of the form or of the charts
back_to_view ==
    /\ running
    /\ inputDisplay = "block" \/ plotDisplay = "block"
    /\ show_data
    /\ UNCHANGED <<running, current, dark, task, alertness, energy, data,
                   row_locations, file, phase, dt, rounded>>

\* The validations with the energy field left out
validations_without_energy == <<LengthValid(task), IntegerValid(alertness), TRUE>>

\* The validations of submit_entries: every Input of the application
validations == <<LengthValid(task), IntegerValid(alertness), IntegerValid(energy)>>

\* The row with the energy in front of the alertness
content_energy_first(now) ==
    LET d == round_time(now, 60 * 30)
    IN  << StrCell(StrfDate(d)), StrCell(StrfDay(d)), StrCell(StrfTime(d)),
           StrCell(task), StrCell(energy), StrCell(alertness) >>

\* The row submit_entries builds: the three time columns, then the value of
\* every Input in document order
content(now) ==
    LET d == round_time(now, 60 * 30)
    IN  << StrCell(StrfDate(d)), StrCell(StrfDay(d)), StrCell(StrfTime(d)),
           StrCell(task), StrCell(alertness), StrCell(energy) >>

\* submit_entries that does not look at the validations
submit_entries_unvalidated ==
    /\ running
    /\ inputDisplay = "block"
    /\ Len(data) < MaxRows
    /\ \E now \in Nows :
         /\ data' = Append(data, content(now))
         /\ row_locations' = sort(data')
    /\ task' = <<>> /\ alertness' = <<>> /\ energy' = <<>>
    /\ show_data
    /\ UNCHANGED <<running, current, dark, file>>
    /\ UNCHANGED studyVars

\* WhenTrackerApp.submit_entries: the Submit button of the form
submit_entries ==
    /\ running
    /\ inputDisplay = "block"
    /\ IF ~(\A i \in 1..3 : validations[i])
       THEN UNCHANGED appVars
       ELSE /\ Len(data) < MaxRows
            /\ \E now \in Nows :
                 /\ data' = Append(data, content(now))
                 /\ row_locations' = sort(data')
            /\ task' = <<>> /\ alertness' = <<>> /\ energy' = <<>>
            /\ show_data
            /\ UNCHANGED <<running, current, dark, file>>
    /\ UNCHANGED studyVars

Next ==
    \/ on_mount
    \/ action_toggle_dark_mode
    \/ action_add_row
    \/ input_changed
    \/ action_show_plots
    \/ tab_pressed
    \/ action_remove_row
    \/ action_save
    \/ action_exit_application
    \/ back_to_view
    \/ submit_entries

Spec == Init /\ [][Next]_vars

(***************************************************************************)
(* round_time as a function: every second of one day, at the first and the *)
(* last microsecond of the second                                          *)
(***************************************************************************)

RoundInputs ==
    { DateTime(738885, s, us) : s \in 0..(24 * 3600 - 1), us \in {0, 999999} }

InitRound ==
    /\ running = FALSE
    /\ dataDisplay = "none" /\ inputDisplay = "none" /\ plotDisplay = "none"
    /\ current = "time-over-total"
    /\ dark = TRUE
    /\ task = <<>> /\ alertness = <<>> /\ energy = <<>>
    /\ data = <<>> /\ row_locations = <<>>
    /\ file = NoFile
    /\ phase = "input"
    /\ dt \in RoundInputs
    /\ rounded = NoDateTime

\* self.round_time(round_to=60 * 30) with now() = dt
call_round_time ==
    /\ phase = "input"
    /\ rounded' = round_time(dt, 60 * 30)
    /\ phase' = "done"
    /\ UNCHANGED <<appVars, dt>>

NextRound == call_round_time

SpecRound == InitRound /\ [][NextRound]_vars

(***************************************************************************)
(* DataView.sort as a function: every table of up to MaxSortLen rows over  *)
(* three (date, time) keys, in any insertion order                         *)
(***************************************************************************)

MaxSortLen == 4

\* Rows as submit_entries builds them, for three times of submission
SortRows ==
    { LET d == round_time(now, 60 * 30)
      IN  << StrCell(StrfDate(d)), StrCell(StrfDay(d)), StrCell(StrfTime(d)),
             StrCell(Read), StrCell(<<"5">>), StrCell(<<"6">>) >> :
      now \in Nows \cup { DateTime(738885, 10 * 3600 + 23 * 60, 0) } }

InitSort ==
    /\ running = FALSE
    /\ dataDisplay = "none" /\ inputDisplay = "none" /\ plotDisplay = "none"
    /\ current = "time-over-total"
    /\ dark = TRUE
    /\ task = <<>> /\ alertness = <<>> /\ energy = <<>>
    /\ \E n \in 0..MaxSortLen :
         /\ data \in [1..n -> SortRows]
         /\ row_locations = [i \in 1..n |-> i]
    /\ file = NoFile
    /\ phase = "input"
    /\ dt = NoDateTime /\ rounded = NoDateTime

\* self.sort() on a table whose rows were added in the order of data
call_sort ==
    /\ phase = "input"
    /\ row_locations' = sort(data)
    /\ phase' = "done"
    /\ UNCHANGED <<running, dataDisplay, inputDisplay, plotDisplay, current, dark,
                   task, alertness, energy, data, file, dt, rounded>>

NextSort == call_sort

SpecSort == InitSort /\ [][NextSort]_vars

(***************************************************************************)
(* Properties                                                              *)
(***************************************************************************)

\* The views whose display is "block"
Visible ==
    { v \in {"Table", "Form", "Chart"} :
        \/ v = "Table" /\ dataDisplay = "block"
        \/ v = "Form" /\ inputDisplay = "block"
        \/ v = "Chart" /\ plotDisplay = "block" }

\* The value denotes an integer in 1..10
ScoreInRange(value) == \E n \in 1..10 : IsIntString(value) /\ ParseInt(value) = n

AnyFieldInvalid ==
    \/ Len(task) = 0
    \/ Len(task) > 255
    \/ ~ScoreInRange(alertness)
    \/ ~ScoreInRange(energy)

\* Number of occurrences of the row r in the sequence of rows
RECURSIVE Count(_, _)
Count(r, rows) ==
    IF rows = <<>> THEN 0
    ELSE (IF Head(rows) = r THEN 1 ELSE 0) + Count(r, Tail(rows))

Range(seq) == { seq[i] : i \in 1..Len(seq) }

\* The displayed text of every cell of the rows
TextOf(rows) == [i \in 1..Len(rows) |-> [c \in 1..6 |-> PyStr(rows[i][c])]]

\* Two sequences of rows hold the same rows, in any order
SameRows(a, b) ==
    /\ Len(a) = Len(b)
    /\ \A r \in Range(a) \cup Range(b) : Count(r, a) = Count(r, b)

\* C1: whenever the application runs exactly one of the three views is
\* visible, and the view visible right after start-up is the table.
Thm_C1 ==
    [][running' =>
          /\ Cardinality(Visible') = 1
          /\ (~running => Visible' = {"Table"})]_vars

Wit_C1 ==
    /\ running
    /\ Visible = {"Chart"}
    /\ ~dark
    /\ Len(data) = 1
    /\ task # <<>>

\* C2: a submit with an invalid field changes neither the table, nor the three
\* fields, nor the visible view (still the form), nor the file; and every row
\* of the table has all six columns.
Thm_C2 ==
    [][/\ (submit_entries /\ AnyFieldInvalid) =>
              /\ UNCHANGED <<data, row_locations, task, alertness, energy, file>>
              /\ UNCHANGED <<dataDisplay, inputDisplay, plotDisplay>>
              /\ Visible' = {"Form"}
       /\ \A i \in 1..Len(data') : Len(data'[i]) = 6]_vars

Wit_C2 ==
    /\ running
    /\ Visible = {"Form"}
    /\ task = LongTask
    /\ ScoreInRange(alertness)
    /\ ScoreInRange(energy)
    /\ Len(data) < MaxRows
    /\ file.exists

FileHoldsTable(f, rows, locs) ==
    /\ f.exists
    /\ f.header = <<"date", "day", "time", "task", "alertness", "energy">>
    /\ Len(f.lines) = Len(locs)
    /\ \A i \in 1..Len(locs) : \A c \in 1..6 :
          f.lines[i][c] =
            LET v == rows[locs[i]][c]
            IN  IF v.type = "nan" THEN <<>>
                ELSE IF c >= 5 /\ v.type = "str" THEN SignedToStr(ParseInt(v.s))
                ELSE PyStr(v)

\* C4: the file changes only in a save step, which leaves it holding the
\* header and the whole table, or in the start-up that creates the missing
\* file with the header alone; and save can be taken in every state of the
\* running application, whatever the view.  (The dark-mode toggle is a step
\* out of every such state, so the first conjunct looks at each of them.)
Thm_C4 ==
    [][/\ action_toggle_dark_mode => ENABLED action_save
       /\ file' # file =>
             \/ action_save /\ FileHoldsTable(file', data, row_locations)
             \/ on_mount /\ ~file.exists /\ file'.exists /\ file'.lines = <<>>]_vars

Wit_C4 ==
    /\ running
    /\ Visible = {"Form"}
    /\ file.exists
    /\ file.header = COLS
    /\ Len(file.lines) = 1
    /\ file.lines[1][4] = Read
    /\ data = <<>>

\* C5: after a save, loading the file gives the rows of the table that was
\* saved, with the same text in every column.
Cex_C5 ==
    [][(action_save /\ running') =>
          SameRows(TextOf(read_csv(file')), TextOf(DisplayedRows(data, row_locations)))]_vars

\* A view change between two states of the running application
ViewChange(from, to) ==
    running /\ running' /\ Visible = {from} /\ Visible' = {to}

\* C6 as stated: the view changes only Table->Form by add-row, Table->Chart by
\* show-plots, Form->Table by a valid submit or back, Chart->Table by back.
Cex_C6 ==
    [][(running /\ running' /\ Visible' # Visible) =>
          \/ ViewChange("Table", "Form") /\ action_add_row
          \/ ViewChange("Table", "Chart") /\ action_show_plots
          \/ ViewChange("Form", "Table")
                /\ (back_to_view \/ (submit_entries /\ ~AnyFieldInvalid))
          \/ ViewChange("Chart", "Table") /\ back_to_view]_vars

\* C6 amended: the view changes only to Form by add-row (from Table or Chart),
\* to Chart by show-plots (from Table or Form), Form->Table by a valid submit
\* or back, and Chart->Table by back.
Thm_C6 ==
    [][(running /\ running' /\ Visible' # Visible) =>
          \/ (ViewChange("Table", "Form") \/ ViewChange("Chart", "Form"))
                /\ action_add_row
          \/ (ViewChange("Table", "Chart") \/ ViewChange("Form", "Chart"))
                /\ action_show_plots
          \/ ViewChange("Form", "Table")
                /\ (back_to_view \/ (submit_entries /\ ~AnyFieldInvalid))
          \/ ViewChange("Chart", "Table") /\ back_to_view]_vars

Wit_C6 ==
    /\ running
    /\ Visible = {"Form"}
    /\ current = "time-over-energy"
    /\ Len(data) = 1

\* C7: the current chart slot is always one of the three, and whenever
\* show-plots makes the chart view visible the current slot is "total".
Cex_C7 ==
    [][running' =>
          /\ current' \in Slots
          /\ (action_show_plots /\ Visible # {"Chart"} /\ Visible' = {"Chart"})
                => current' = "time-over-total"]_vars

\* row a sorts before row b by (date, time)
KeyBefore(a, b) ==
    \/ StrLess(a[1].s, b[1].s)
    \/ a[1].s = b[1].s /\ StrLess(a[3].s, b[3].s)

SameKey(a, b) == a[1].s = b[1].s /\ a[3].s = b[3].s

\* The displayed rows are the rows of the table, non-increasing by (date, time)
SortedView ==
    /\ Len(row_locations) = Len(data)
    /\ Range(row_locations) = 1..Len(data)
    /\ \A i, j \in 1..Len(row_locations) :
          i < j => ~KeyBefore(data[row_locations[i]], data[row_locations[j]])

\* C8 as stated: after sort the table shows the same rows, non-increasing by
\* (date, time), rows with equal (date, time) in the reverse of the order in
\* which they were inserted.
Cex_C8 ==
    phase = "done" =>
        /\ SortedView
        /\ \A i, j \in 1..Len(row_locations) :
              (i < j /\ SameKey(data[row_locations[i]], data[row_locations[j]]))
                 => row_locations[i] > row_locations[j]

\* C8 amended: after sort the table shows the same rows, non-increasing by
\* (date, time), rows with equal (date, time) in the order in which they
\* were inserted.
Thm_C8 ==
    phase = "done" =>
        /\ SortedView
        /\ \A i, j \in 1..Len(row_locations) :
              (i < j /\ SameKey(data[row_locations[i]], data[row_locations[j]]))
                 => row_locations[i] < row_locations[j]

Wit_C8 ==
    /\ phase = "done"
    /\ Len(data) = 3
    /\ SameKey(data[1], data[3])
    /\ KeyBefore(data[1], data[2])
    /\ row_locations = <<2, 1, 3>>

\* Microseconds from the datetime a to the datetime b
MicrosBetween(a, b) ==
    ((b.ordinal - a.ordinal) * 86400 + (b.second - a.second)) * 1000000
    + (b.microsecond - a.microsecond)

\* C9: round_time to 30 minutes gives the nearest multiple of 30 minutes, the
\* later one on a tie: minutes 00 or 30, no seconds, no microseconds, at most
\* 15 minutes from the input; 10:07 gives 10:00, 10:23 gives 10:30, and from
\* 23:45:00 on the result is 00:00 of the next day.
Thm_C9 ==
    phase = "done" =>
        LET diff == MicrosBetween(dt, rounded)
            hm   == StrfTime(rounded)
        IN  /\ rounded.microsecond = 0
            /\ rounded.second % 60 = 0
            /\ SubSeq(hm, 4, 5) \in { <<"0", "0">>, <<"3", "0">> }
            /\ diff <= 15 * 60 * 1000000
            /\ diff > 0 - 15 * 60 * 1000000
            /\ (dt.second \div 60 = 10 * 60 + 7) => hm = <<"1", "0", ":", "0", "0">>
            /\ (dt.second \div 60 = 10 * 60 + 23) => hm = <<"1", "0", ":", "3", "0">>
            /\ (dt.second >= 23 * 3600 + 45 * 60) =>
                  rounded = DateTime(dt.ordinal + 1, 0, 0)
            /\ (dt.second < 23 * 3600 + 45 * 60) => rounded.ordinal = dt.ordinal

Wit_C9 ==
    /\ phase = "done"
    /\ dt = DateTime(738885, 23 * 3600 + 50 * 60, 0)
    /\ StrfDate(rounded) = <<"2", "0", "2", "4", "-", "0", "1", "-", "0", "1">>
    /\ StrfTime(rounded) = <<"0", "0", ":", "0", "0">>

\* C10: every row of the table has a task of 1 to 255 characters and an
\* alertness and an energy in 1..10.
Cex_C10 ==
    running =>
        \A i \in 1..Len(data) :
            /\ data[i][4].type = "str"
            /\ Len(data[i][4].s) >= 1
            /\ Len(data[i][4].s) <= 255
            /\ \A c \in {5, 6} :
                  \/ data[i][c].type = "int" /\ data[i][c].n \in 1..10
                  \/ data[i][c].type = "str" /\ ScoreInRange(data[i][c].s)

====
